---------------------------- MODULE Spec2Model ----------------------------
(***************************************************************************)
(* A model of sbb-citation-match-checker.py: the name-year citation        *)
(* checker.  A text is a sequence of characters; a character is a string   *)
(* of length one, except the CJK characters of the heading keywords, which *)
(* are written by code point ("U+6587").                                   *)
(***************************************************************************)
EXTENDS Naturals, Sequences, FiniteSets, TLC

VARIABLES
    pc,                \* position of main()
    docx_exists,       \* docx_path.exists()
    paragraphs,        \* doc.paragraphs, the text of each
    cells,             \* the text of every table cell, tables/rows/cells in order
    citations,         \* main: citations
    cit_key_examples,  \* main: cit_key_examples (key -> set of candidates)
    ref_lines,         \* main: ref_lines
    ref_entries,       \* main: ref_entries
    missing_keys,      \* main: missing_keys
    unused_keys,       \* main: unused_keys
    log_lines,         \* main: log_lines
    citations_txt,     \* the lines written to <stem>_citations.txt
    report_txt,        \* the lines written to <stem>_citation_report.txt
    arg,               \* the argument of a function applied on its own
    out                \* the results of the function applied on its own

vars == <<pc, docx_exists, paragraphs, cells, citations, cit_key_examples,
          ref_lines, ref_entries, missing_keys, unused_keys, log_lines,
          citations_txt, report_txt, arg, out>>

mainVars == <<pc, docx_exists, paragraphs, cells, citations, cit_key_examples,
              ref_lines, ref_entries, missing_keys, unused_keys, log_lines,
              citations_txt, report_txt>>

-----------------------------------------------------------------------------
(* Characters and the str methods the program uses.                         *)

Chars(s) == [i \in 1..Len(s) |-> SubSeq(s, i, i)]

UpperLetters == Chars("ABCDEFGHIJKLMNOPQRSTUVWXYZ")
LowerLetters == Chars("abcdefghijklmnopqrstuvwxyz")
\* U+0020..U+007E in code point order (a TLA+ string cannot hold the grave accent)
Printable ==
    Chars(" !\"#$%&'()*+,-./0123456789:;<=>?@ABCDEFGHIJKLMNOPQRSTUVWXYZ[\\]^_")
    \o <<"U+0060">> \o Chars("abcdefghijklmnopqrstuvwxyz{|}~")
CJK == <<"U+53C2", "U+53C3", "U+6587", "U+732E", "U+737B", "U+8003">>

Range(s) == {s[i] : i \in 1..Len(s)}
IndexOf(s, c) == CHOOSE i \in 1..Len(s) : s[i] = c

UpperSet == Range(UpperLetters)
LowerSet == Range(LowerLetters)
DigitSet == Range(Chars("0123456789"))
SpaceSet == {" ", "\t", "\n", "\r"}
PrintableSet == Range(Printable)

IsUpper(c) == c \in UpperSet       \* [A-Z]
IsLower(c) == c \in LowerSet       \* [a-z]
IsLetter(c) == IsUpper(c) \/ IsLower(c)
IsDigit(c) == c \in DigitSet       \* \d
IsSpace(c) == c \in SpaceSet       \* \s, and what str.strip() and str.split() take

\* str.lower(), one character
LowerChar(c) == IF IsUpper(c) THEN LowerLetters[IndexOf(UpperLetters, c)] ELSE c
\* str.lower()
Lower(s) == [i \in 1..Len(s) |-> LowerChar(s[i])]

\* the code point, which orders strings in sorted()
CodePoint(c) ==
    IF c = "\t" THEN 9
    ELSE IF c = "\n" THEN 10
    ELSE IF c = "\r" THEN 13
    ELSE IF c \in PrintableSet THEN 31 + IndexOf(Printable, c)
    ELSE 20000 + IndexOf(CJK, c)

\* str.strip()
RECURSIVE LStrip(_)
LStrip(s) == IF s # <<>> /\ IsSpace(Head(s)) THEN LStrip(Tail(s)) ELSE s
RECURSIVE RStrip(_)
RStrip(s) ==
    IF s # <<>> /\ IsSpace(s[Len(s)]) THEN RStrip(SubSeq(s, 1, Len(s) - 1)) ELSE s
Strip(s) == RStrip(LStrip(s))

\* str.split(): the maximal runs of non-whitespace characters
RECURSIVE SplitFrom(_, _, _)
SplitFrom(s, cur, acc) ==
    IF s = <<>> THEN (IF cur = <<>> THEN acc ELSE Append(acc, cur))
    ELSE IF IsSpace(Head(s))
         THEN SplitFrom(Tail(s), <<>>, IF cur = <<>> THEN acc ELSE Append(acc, cur))
         ELSE SplitFrom(Tail(s), Append(cur, Head(s)), acc)
Split(s) == SplitFrom(s, <<>>, <<>>)

\* sub in s: whether s holds sub at position i, and whether s holds it anywhere
HasAt(s, sub, i) ==
    /\ i >= 1
    /\ i + Len(sub) - 1 <= Len(s)
    /\ \A k \in 1..Len(sub) : s[i + k - 1] = sub[k]
Contains(s, sub) ==
    Len(sub) <= Len(s) /\ \E i \in 1..(Len(s) - Len(sub) + 1) : HasAt(s, sub, i)

\* str.split(",", 1)[0]
RECURSIVE BeforeComma(_)
BeforeComma(s) ==
    IF s = <<>> \/ Head(s) = "," THEN <<>> ELSE <<Head(s)>> \o BeforeComma(Tail(s))

\* the token \d{4}[a-z]? matched at position i: its length, 0 when it does not match
YearLenAt(s, i) ==
    IF i >= 1 /\ i + 3 <= Len(s) /\ \A k \in 0..3 : IsDigit(s[i + k])
    THEN (IF i + 4 <= Len(s) /\ IsLower(s[i + 4]) THEN 5 ELSE 4)
    ELSE 0

-----------------------------------------------------------------------------
(* normalize_author                                                         *)

EtAlDot == Chars("et al.")   \* line 70

\* a faulty SubEtAl: the pattern r"et al\.?", the period optional
RECURSIVE SubEtAl_PeriodOptional(_)
SubEtAl_PeriodOptional(s) ==
    IF s = <<>> THEN <<>>
    ELSE IF HasAt(s, EtAlDot, 1)
         THEN SubEtAl_PeriodOptional(SubSeq(s, Len(EtAlDot) + 1, Len(s)))
    ELSE IF HasAt(s, Chars("et al"), 1)
         THEN SubEtAl_PeriodOptional(SubSeq(s, Len(EtAlDot), Len(s)))
         ELSE <<Head(s)>> \o SubEtAl_PeriodOptional(Tail(s))

\* re.sub(r"et al\.", "", s): the occurrences left to right, none overlapping
RECURSIVE SubEtAl(_)
SubEtAl(s) ==
    IF s = <<>> THEN <<>>
    ELSE IF HasAt(s, EtAlDot, 1)
         THEN SubEtAl(SubSeq(s, Len(EtAlDot) + 1, Len(s)))
         ELSE <<Head(s)>> \o SubEtAl(Tail(s))

\* re.match(r"^[A-Z]\.?$", token), the token holding no whitespace
IsInitial(token) ==
    \/ Len(token) = 1 /\ IsUpper(token[1])
    \/ Len(token) = 2 /\ IsUpper(token[1]) /\ token[2] = "."

\* re.sub(r"[^A-Za-z\-'\s]", "", surname)
KeepSurnameChars(s) == SelectSeq(s, LAMBDA c : IsLetter(c) \/ c = "-" \/ c = "'" \/ IsSpace(c))

\* a faulty PickSurname: the first token whatever it is
PickSurname_AlwaysFirst(tokens) == tokens[1]

\* lines 81-85
PickSurname(tokens) ==
    IF Len(tokens) >= 2 /\ IsInitial(tokens[1]) THEN tokens[Len(tokens)] ELSE tokens[1]

normalize_author(author) ==
    LET a1 == Strip(author)
        a2 == Strip(SubEtAl(a1))
        a3 == IF "," \in Range(a2) THEN Strip(BeforeComma(a2)) ELSE a2
        tokens == Split(a3)
    IN  IF tokens = <<>> THEN <<>>
        ELSE Lower(KeepSurnameChars(PickSurname(tokens)))

-----------------------------------------------------------------------------
(* extract_citations                                                        *)

IsParen(c) == c = "(" \/ c = ")"

\* whether \d{4} occurs in s
HasYear(s) == \E i \in 1..Len(s) : YearLenAt(s, i) > 0

\* the first parenthesis after position i, Len(s) + 1 when there is none
RECURSIVE NextParen(_, _)
NextParen(s, i) ==
    IF i + 1 > Len(s) THEN Len(s) + 1
    ELSE IF IsParen(s[i + 1]) THEN i + 1 ELSE NextParen(s, i + 1)

\* a faulty CitationMatchEnd: any content without parentheses, no year asked
CitationMatchEnd_AnyContent(s, i) ==
    IF i > Len(s) \/ s[i] # "(" THEN 0
    ELSE LET j == NextParen(s, i)
         IN  IF j <= Len(s) /\ s[j] = ")" THEN j ELSE 0

\* The pattern of extract_citations tried at position i: the position of the
\* closing parenthesis of the match, 0 when there is no match.  Everything
\* between the parentheses is matched by [^()], so the match ends at the first
\* parenthesis after i, which must be ")"; the rest of the pattern asks only
\* that \d{4} occurs in between (the first occurrence, [a-z]? and the lazy
\* [^()]*? take the content, the trailing group repeats zero times).
CitationMatchEnd(s, i) ==
    IF i > Len(s) \/ s[i] # "(" THEN 0
    ELSE LET j == NextParen(s, i)
         IN  IF j <= Len(s) /\ s[j] = ")" /\ HasYear(SubSeq(s, i + 1, j - 1))
             THEN j ELSE 0

\* pattern.finditer(text): the matches left to right, the search going on
\* after the end of each; then c[1:-1].strip() of each
RECURSIVE CitationScan(_, _)
CitationScan(s, i) ==
    IF i > Len(s) THEN <<>>
    ELSE LET j == CitationMatchEnd(s, i)
         IN  IF j = 0 THEN CitationScan(s, i + 1)
             ELSE <<Strip(SubSeq(s, i + 1, j - 1))>> \o CitationScan(s, j + 1)

extract_citations(text) == CitationScan(text, 1)

-----------------------------------------------------------------------------
(* build_citation_keys                                                      *)

\* a faulty MakeKey: the suffix letter of the year left out
MakeKey_NoSuffix(author_norm, year) == author_norm \o <<"|">> \o SubSeq(year, 1, 4)

\* f"{author_norm}|{year}"
MakeKey(author_norm, year) == author_norm \o <<"|">> \o year

\* the first comma after position i, Len(s) + 1 when there is none
RECURSIVE NextComma(_, _)
NextComma(s, i) ==
    IF i + 1 > Len(s) THEN Len(s) + 1
    ELSE IF s[i + 1] = "," THEN i + 1 ELSE NextComma(s, i + 1)

\* \s* from position i: the first position that holds no whitespace
RECURSIVE SkipSpace(_, _)
SkipSpace(s, i) == IF i <= Len(s) /\ IsSpace(s[i]) THEN SkipSpace(s, i + 1) ELSE i

\* The pattern ([A-Z][^,]*?),\s*(\d{4}[a-z]?) tried at position i: a record
\* [ok, author, year, end].  [^,]*? stops at the first comma after i and cannot
\* pass it; \s* takes all the whitespace (giving some back cannot help \d).
PairMatchAt(s, i) ==
    LET c == NextComma(s, i)
        y == SkipSpace(s, c + 1)
        n == YearLenAt(s, y)
    IN  IF i <= Len(s) /\ IsUpper(s[i]) /\ c <= Len(s) /\ n > 0
        THEN [ok |-> TRUE, author |-> SubSeq(s, i, c - 1),
              year |-> SubSeq(s, y, y + n - 1), end |-> y + n - 1]
        ELSE [ok |-> FALSE, author |-> <<>>, year |-> <<>>, end |-> 0]

\* pattern.finditer(cit): the matches left to right, none overlapping
RECURSIVE PairScan(_, _)
PairScan(s, i) ==
    IF i > Len(s) THEN <<>>
    ELSE LET m == PairMatchAt(s, i)
         IN  IF m.ok THEN <<m>> \o PairScan(s, m.end + 1)
             ELSE PairScan(s, i + 1)

\* a faulty AddExample: key_to_examples[key] = {cit}
AddExample_Overwrite(key_to_examples, key, cit) ==
    IF key \in DOMAIN key_to_examples
    THEN [key_to_examples EXCEPT ![key] = {cit}]
    ELSE key_to_examples @@ (key :> {cit})

\* key_to_examples.setdefault(key, set()).add(cit)
AddExample(key_to_examples, key, cit) ==
    IF key \in DOMAIN key_to_examples
    THEN [key_to_examples EXCEPT ![key] = @ \cup {cit}]
    ELSE key_to_examples @@ (key :> {cit})

\* the inner loop of build_citation_keys over the matches of one candidate
RECURSIVE AddMatches(_, _, _)
AddMatches(key_to_examples, cit, ms) ==
    IF ms = <<>> THEN key_to_examples
    ELSE LET raw_author_part == Strip(Head(ms).author)
             year == Head(ms).year
             author_norm == normalize_author(raw_author_part)
         IN  IF author_norm = <<>>
             THEN AddMatches(key_to_examples, cit, Tail(ms))
             ELSE AddMatches(AddExample(key_to_examples, MakeKey(author_norm, year), cit),
                             cit, Tail(ms))

\* the outer loop of build_citation_keys
RECURSIVE KeysLoop(_, _)
KeysLoop(key_to_examples, citation_strings) ==
    IF citation_strings = <<>> THEN key_to_examples
    ELSE KeysLoop(AddMatches(key_to_examples, Head(citation_strings),
                             PairScan(Head(citation_strings), 1)),
                  Tail(citation_strings))

build_citation_keys(citation_strings) == KeysLoop(<<>>, citation_strings)

-----------------------------------------------------------------------------
(* extract_reference_paragraphs                                             *)

heading_keywords ==
    << Chars("references"), Chars("reference"), Chars("bibliography"),
       Chars("literature cited"), Chars("works cited"),
       <<"U+53C2", "U+8003", "U+6587", "U+732E">>,
       <<"U+53C3", "U+8003", "U+6587", "U+737B">>,
       <<"U+6587", "U+732E">>,
       <<"U+6587", "U+737B">> >>

\* any(kw in text_lower for kw in heading_keywords)
HasHeadingKeyword(text_lower) ==
    \E k \in 1..Len(heading_keywords) : Contains(text_lower, heading_keywords[k])

\* a faulty RefsLoop: an empty paragraph after the heading ends the list
RECURSIVE RefsLoop_StopAtEmpty(_, _, _)
RefsLoop_StopAtEmpty(ps, refs_started, refs) ==
    IF ps = <<>> THEN refs
    ELSE LET text == Strip(Head(ps))
             text_lower == Lower(text)
         IN  IF ~refs_started
             THEN RefsLoop_StopAtEmpty(Tail(ps), HasHeadingKeyword(text_lower), refs)
             ELSE IF text = <<>> THEN refs
             ELSE RefsLoop_StopAtEmpty(Tail(ps), refs_started, Append(refs, text))

\* the loop of extract_reference_paragraphs
RECURSIVE RefsLoop(_, _, _)
RefsLoop(ps, refs_started, refs) ==
    IF ps = <<>> THEN refs
    ELSE LET text == Strip(Head(ps))
             text_lower == Lower(text)
         IN  IF ~refs_started
             THEN RefsLoop(Tail(ps), HasHeadingKeyword(text_lower), refs)
             ELSE IF text = <<>> THEN RefsLoop(Tail(ps), refs_started, refs)
             ELSE RefsLoop(Tail(ps), refs_started, Append(refs, text))

extract_reference_paragraphs(doc_paragraphs) == RefsLoop(doc_paragraphs, FALSE, <<>>)

-----------------------------------------------------------------------------
(* parse_reference_entries                                                  *)

\* re.search(r"(\d{4}[a-z]?)", text): the position of the first match from i,
\* 0 when there is none
RECURSIVE FirstYearFrom(_, _)
FirstYearFrom(s, i) ==
    IF i > Len(s) THEN 0
    ELSE IF YearLenAt(s, i) > 0 THEN i ELSE FirstYearFrom(s, i + 1)

\* a faulty ParseLoop: the index counts the entries produced so far
RECURSIVE ParseLoop_CountRetained(_, _, _)
ParseLoop_CountRetained(lines, i, entries) ==
    IF lines = <<>> THEN entries
    ELSE LET text == Head(lines)
             m == FirstYearFrom(text, 1)
             year == SubSeq(text, m, m + YearLenAt(text, m) - 1)
             author_norm == normalize_author(Strip(BeforeComma(text)))
         IN  IF m = 0 \/ author_norm = <<>>
             THEN ParseLoop_CountRetained(Tail(lines), i + 1, entries)
             ELSE ParseLoop_CountRetained(Tail(lines), i + 1,
                            Append(entries,
                                   [index |-> Len(entries), raw |-> text,
                                    author_norm |-> author_norm,
                                    year |-> year, key |-> MakeKey(author_norm, year)]))

\* the loop of parse_reference_entries; i is enumerate's index of Head(lines)
RECURSIVE ParseLoop(_, _, _)
ParseLoop(lines, i, entries) ==
    IF lines = <<>> THEN entries
    ELSE LET text == Head(lines)
             m == FirstYearFrom(text, 1)
             year == SubSeq(text, m, m + YearLenAt(text, m) - 1)
             first_author_part == Strip(BeforeComma(text))
             author_norm == normalize_author(first_author_part)
         IN  IF m = 0 THEN ParseLoop(Tail(lines), i + 1, entries)
             ELSE IF author_norm = <<>> THEN ParseLoop(Tail(lines), i + 1, entries)
             ELSE ParseLoop(Tail(lines), i + 1,
                            Append(entries,
                                   [index |-> i, raw |-> text, author_norm |-> author_norm,
                                    year |-> year, key |-> MakeKey(author_norm, year)]))

parse_reference_entries(lines) == ParseLoop(lines, 0, <<>>)

-----------------------------------------------------------------------------
(* extract_text_from_docx, and what main needs of str and set                *)

\* sep.join(parts)
RECURSIVE Join(_, _)
Join(parts, sep) ==
    IF parts = <<>> THEN <<>>
    ELSE IF Len(parts) = 1 THEN Head(parts)
    ELSE Head(parts) \o sep \o Join(Tail(parts), sep)

\* the text of the paragraphs, then of the table cells, the empty ones left out
extract_text_from_docx(doc_paragraphs, doc_cells) ==
    LET parts == SelectSeq(doc_paragraphs, LAMBDA t : t # <<>>)
                 \o SelectSeq(doc_cells, LAMBDA t : t # <<>>)
    IN  Join(parts, <<"\n">>)

\* a < b for str: by code point, a proper prefix first
RECURSIVE StrLess(_, _)
StrLess(a, b) ==
    IF b = <<>> THEN FALSE
    ELSE IF a = <<>> THEN TRUE
    ELSE IF Head(a) = Head(b) THEN StrLess(Tail(a), Tail(b))
    ELSE CodePoint(Head(a)) < CodePoint(Head(b))

\* sorted(S) for a set of str
RECURSIVE Sorted(_)
Sorted(S) ==
    IF S = {} THEN <<>>
    ELSE LET least == CHOOSE x \in S : \A y \in S \ {x} : StrLess(x, y)
         IN  <<least>> \o Sorted(S \ {least})

\* the file written by "for c in citations: f.write(c + '\n')"
RECURSIVE WriteLines(_)
WriteLines(cs) ==
    IF cs = <<>> THEN <<>> ELSE Head(cs) \o <<"\n">> \o WriteLines(Tail(cs))

-----------------------------------------------------------------------------
(* main.  A line of log_lines is the tuple of the parts of its f-string: the *)
(* literal text as written in the source and the values put into it; the    *)
(* en dash of the source is written "U+2013".                                *)

docx_path == "C:\\path\\to\\your\\docx\\file.docx"
citations_txt_path == "C:\\path\\to\\your\\docx\\file_citations.txt"

NoReferenceListLine ==
    <<"ERROR: No reference list detected (no suitable heading or nothing after it).">>
MissingHeaderLine ==
    <<"\n[ERROR] In-text citations with no matching reference entry (by first author + year):">>
MissingOkLine ==
    <<"\n[OK] All detected in-text citation keys have at least one matching reference entry.">>
UnusedHeaderLine ==
    <<"\n[INFO] Reference entries that were not detected in any in-text citation (not necessarily an error, but potential clean-up):">>
UnusedOkLine ==
    <<"\n[OK] Every parsed reference entry is cited at least once in the text (by first author + year).">>
OverallUndeterminedLine ==
    <<"\nOVERALL: Could not assess citation consistency because no reference list was detected.">>
OverallErrorsLine ==
    <<"\nOVERALL: Citation", "U+2013", "reference consistency has ERRORS. Some in-text citations (first author + year) do not have matching entries in the reference list. Please add or correct those references.">>
OverallGoodLine ==
    <<"\nOVERALL: Citation", "U+2013", "reference consistency looks GOOD. All detected in-text citation keys have at least one matching reference entry. Any unused references listed above are optional clean-up (not a formal style violation).">>

MissingKeyLine(key, examples) == <<"  key = ", key, "   from citation(s): ", examples>>
UnusedEntryLine(raw) == <<"  - ", raw>>
MissingCountLine(n) == <<"Number of missing citation keys (no match in references): ", n>>
UnusedCountLine(n) == <<"Number of unused reference entries (not cited in text): ", n>>

KeysOf(entries) == {entries[i].key : i \in 1..Len(entries)}

\* lines 207-209: the path names no file
FileNotFound ==
    /\ pc = "start"
    /\ ~docx_exists
    /\ pc' = "FileNotFoundError"
    /\ UNCHANGED <<docx_exists, paragraphs, cells, citations, cit_key_examples,
                   ref_lines, ref_entries, missing_keys, unused_keys, log_lines,
                   citations_txt, report_txt, arg, out>>

\* lines 215-236
ExtractCitationsStep ==
    /\ pc = "start"
    /\ docx_exists
    /\ LET full_text == extract_text_from_docx(paragraphs, cells)
           cs == extract_citations(full_text)
           examples == build_citation_keys(cs)
       IN  /\ citations' = cs
           /\ citations_txt' = WriteLines(cs)
           /\ cit_key_examples' = examples
           /\ log_lines' =
                << <<"DOCX file: ", docx_path>>,
                   <<"\n[Step 1] Extracting in-text citation candidates...">>,
                   <<"Number of citation parentheses found: ", Len(cs)>>,
                   <<"Citation parentheses saved to: ", citations_txt_path>>,
                   <<"Number of distinct (author|year) citation keys: ",
                     Cardinality(DOMAIN examples)>> >>
    /\ pc' = "step2"
    /\ UNCHANGED <<docx_exists, paragraphs, cells, ref_lines, ref_entries,
                   missing_keys, unused_keys, report_txt, arg, out>>

\* lines 241-245
ExtractReferencesStep ==
    /\ pc = "step2"
    /\ LET lines == extract_reference_paragraphs(paragraphs)
       IN  /\ ref_lines' = lines
           /\ log_lines' = log_lines \o
                << <<"\n[Step 2] Extracting reference list from DOCX...">>,
                   <<"Number of reference lines found after reference heading: ",
                     Len(lines)>> >>
    /\ pc' = "step3"
    /\ UNCHANGED <<docx_exists, paragraphs, cells, citations, cit_key_examples,
                   ref_entries, missing_keys, unused_keys, citations_txt,
                   report_txt, arg, out>>

\* lines 247-252
NoReferenceList ==
    /\ pc = "step3"
    /\ ref_lines = <<>>
    /\ log_lines' = Append(log_lines, NoReferenceListLine)
    /\ ref_entries' = <<>>
    /\ missing_keys' = {}
    /\ unused_keys' = {}
    /\ pc' = "step4"
    /\ UNCHANGED <<docx_exists, paragraphs, cells, citations, cit_key_examples,
                   ref_lines, citations_txt, report_txt, arg, out>>

\* lines 264-265
MissingKeys(citation_keys, ref_keys) == citation_keys \ ref_keys
UnusedKeys(citation_keys, ref_keys) == ref_keys \ citation_keys

\* lines 268-274
MissingSection(missing, examples) ==
    IF missing # {}
    THEN <<MissingHeaderLine>> \o
         [i \in 1..Cardinality(missing) |->
            MissingKeyLine(Sorted(missing)[i],
                           Join(Sorted(examples[Sorted(missing)[i]]), Chars("; ")))]
    ELSE <<MissingOkLine>>

\* a faulty UnusedEntryLines: one line per unused key, the first entry's
RECURSIVE UnusedEntryLines_OncePerKey(_, _)
UnusedEntryLines_OncePerKey(entries, unused) ==
    IF entries = <<>> THEN <<>>
    ELSE (IF Head(entries).key \in unused
          THEN <<UnusedEntryLine(Head(entries).raw)>> ELSE <<>>)
         \o UnusedEntryLines_OncePerKey(Tail(entries), unused \ {Head(entries).key})

\* lines 282-284
RECURSIVE UnusedEntryLines(_, _)
UnusedEntryLines(entries, unused) ==
    IF entries = <<>> THEN <<>>
    ELSE (IF Head(entries).key \in unused
          THEN <<UnusedEntryLine(Head(entries).raw)>> ELSE <<>>)
         \o UnusedEntryLines(Tail(entries), unused)

\* lines 277-286
UnusedSection(unused, entries) ==
    IF unused # {}
    THEN <<UnusedHeaderLine>> \o UnusedEntryLines(entries, unused)
    ELSE <<UnusedOkLine>>

\* lines 253-286
CheckConsistency ==
    /\ pc = "step3"
    /\ ref_lines # <<>>
    /\ LET entries == parse_reference_entries(ref_lines)
           citation_keys == DOMAIN cit_key_examples
           ref_keys == KeysOf(entries)
           missing == MissingKeys(citation_keys, ref_keys)
           unused == UnusedKeys(citation_keys, ref_keys)
       IN  /\ ref_entries' = entries
           /\ missing_keys' = missing
           /\ unused_keys' = unused
           /\ log_lines' = log_lines \o
                << <<"Number of parsed reference entries (with year and first author): ",
                     Len(entries)>>,
                   <<"\n[Step 3] Checking citation", "U+2013", "reference consistency...">> >>
                \o MissingSection(missing, cit_key_examples)
                \o UnusedSection(unused, entries)
    /\ pc' = "step4"
    /\ UNCHANGED <<docx_exists, paragraphs, cells, citations, cit_key_examples,
                   ref_lines, citations_txt, report_txt, arg, out>>

\* a faulty OverallLine: ERRORS as soon as either set is not empty
OverallLine_Strict(lines, missing) ==
    IF lines = <<>> THEN OverallUndeterminedLine
    ELSE IF missing # {} \/ unused_keys # {} THEN OverallErrorsLine
    ELSE OverallGoodLine

\* a faulty OverallLine: the detection of the reference list not looked at
OverallLine_NoUndetermined(lines, missing) ==
    IF missing # {} THEN OverallErrorsLine ELSE OverallGoodLine

\* lines 307-323
OverallLine(lines, missing) ==
    IF lines = <<>> THEN OverallUndeterminedLine
    ELSE IF missing # {} THEN OverallErrorsLine
    ELSE OverallGoodLine

\* lines 291-323
Summary ==
    /\ pc = "step4"
    /\ log_lines' = log_lines \o
         << <<"\n[Step 4] Overall summary">>,
            <<"Total citation parentheses in text: ", Len(citations)>>,
            <<"Total distinct citation keys (author|year): ",
              Cardinality(DOMAIN cit_key_examples)>>,
            <<"Total reference lines after heading: ", Len(ref_lines)>>,
            <<"Total parsed reference entries: ", Len(ref_entries)>>,
            MissingCountLine(Cardinality(missing_keys)),
            UnusedCountLine(Cardinality(unused_keys)),
            OverallLine(ref_lines, missing_keys) >>
    /\ pc' = "step5"
    /\ UNCHANGED <<docx_exists, paragraphs, cells, citations, cit_key_examples,
                   ref_lines, ref_entries, missing_keys, unused_keys,
                   citations_txt, report_txt, arg, out>>

\* lines 328-329: f.write("\n".join(log_lines))
WriteReport ==
    /\ pc = "step5"
    /\ report_txt' = Join(log_lines, <<"\n">>)
    /\ pc' = "done"
    /\ UNCHANGED <<docx_exists, paragraphs, cells, citations, cit_key_examples,
                   ref_lines, ref_entries, missing_keys, unused_keys, log_lines,
                   citations_txt, arg, out>>

-----------------------------------------------------------------------------
(* The documents main is run on.                                            *)

MaxParagraphs == 4

\* every sequence over S of length at most n
SeqsUpTo(S, n) == UNION {[1..k -> S] : k \in 0..n}

ParagraphPool ==
    { Chars("See (Smith, 2020)."),
      Chars("References"),
      Chars("Smith, J. 2020a."),
      Chars("Smith, K. 2020."),
      Chars("Undated"),
      <<>> }

CellPool == { <<>>, <<Chars("(Luo, 2022)")>> }

MainInit ==
    /\ pc = "start"
    /\ docx_exists \in BOOLEAN
    /\ paragraphs \in SeqsUpTo(ParagraphPool, MaxParagraphs)
    /\ cells \in CellPool
    /\ ~docx_exists => paragraphs = <<>> /\ cells = <<>>
    /\ citations = <<>>
    /\ cit_key_examples = <<>>
    /\ ref_lines = <<>>
    /\ ref_entries = <<>>
    /\ missing_keys = {}
    /\ unused_keys = {}
    /\ log_lines = <<>>
    /\ citations_txt = <<>>
    /\ report_txt = <<>>

Init == MainInit /\ arg = <<>> /\ out = <<>>

Next ==
    \/ FileNotFound
    \/ ExtractCitationsStep
    \/ ExtractReferencesStep
    \/ NoReferenceList
    \/ CheckConsistency
    \/ Summary
    \/ WriteReport

Spec == Init /\ [][Next]_vars

-----------------------------------------------------------------------------
(* The functions applied on their own: arg is the argument, out the sequence *)
(* of the results so far.  main is not running.                              *)

MainOff ==
    /\ pc = "off"
    /\ docx_exists = FALSE
    /\ paragraphs = <<>>
    /\ cells = <<>>
    /\ citations = <<>>
    /\ cit_key_examples = <<>>
    /\ ref_lines = <<>>
    /\ ref_entries = <<>>
    /\ missing_keys = {}
    /\ unused_keys = {}
    /\ log_lines = <<>>
    /\ citations_txt = <<>>
    /\ report_txt = <<>>

\* the concatenation of a sequence of texts
RECURSIVE Concat(_)
Concat(ps) == IF ps = <<>> THEN <<>> ELSE Head(ps) \o Concat(Tail(ps))

\* every text made of at most n pieces
TextsOf(pieces, n) == {Concat(ps) : ps \in SeqsUpTo(pieces, n)}

(* normalize_author *)

MaxAuthorPieces == 4

AuthorPieces ==
    { Chars("X"), Chars("."), Chars(" "), Chars(","), Chars("Li"), Chars("et al"),
      Chars("3"), Chars("-") }

AuthorExamples ==
    { Chars("X. Li"), Chars("Li, X."), Chars("Allan and Jones"), Chars("Duer"),
      Chars("O'Neil-M3ller"), Chars("Duer et al., 1992") }

AuthorFragments == TextsOf(AuthorPieces, MaxAuthorPieces) \cup AuthorExamples

\* what is appended to the fragment before each application
EtAlSuffixes == << <<>>, Chars(" et al."), Chars(" et al") >>

NormInit == MainOff /\ arg \in AuthorFragments /\ out = <<>>

NormalizeAuthor ==
    /\ Len(out) < Len(EtAlSuffixes)
    /\ out' = Append(out, normalize_author(arg \o EtAlSuffixes[Len(out) + 1]))
    /\ UNCHANGED <<mainVars, arg>>

NormNext == NormalizeAuthor

SpecNorm == NormInit /\ [][NormNext]_vars

(* extract_citations *)

MaxTextPieces == 6

TextPieces == { Chars("("), Chars(")"), Chars("1992"), Chars("12"), Chars(" ") }

ScanExample == Chars("as shown (Duer et al., 1992; Luo, 2022) and (see discussion)")

ScanInit ==
    /\ MainOff
    /\ arg \in TextsOf(TextPieces, MaxTextPieces) \cup {ScanExample}
    /\ out = <<>>

ExtractCitations ==
    /\ out = <<>>
    /\ out' = <<extract_citations(arg)>>
    /\ UNCHANGED <<mainVars, arg>>

ScanNext == ExtractCitations

SpecScan == ScanInit /\ [][ScanNext]_vars

(* build_citation_keys *)

MaxCandidatePieces == 6

CandidatePieces == { Chars("A"), Chars("b"), Chars(" "), Chars(","), Chars("1999") }

\* a candidate is what extract_citations returns: stripped, holding a year
\* token and no parenthesis
PieceCandidates ==
    {c \in TextsOf(CandidatePieces, MaxCandidatePieces) : Strip(c) = c /\ HasYear(c)}

KeysExample == Chars("Allan, 1999, Allan and Jones, 1999, Allan 2000a, Allan 2000b")

FixedCandidates ==
    { KeysExample, Chars("Allan, 1999; Luo, 2022"), Chars("A 1, 1999"),
      Chars("Luo 2022") }

KeysInit ==
    /\ MainOff
    /\ arg \in {<<c>> : c \in PieceCandidates} \cup SeqsUpTo(FixedCandidates, 2)
    /\ out = <<>>

BuildCitationKeys ==
    /\ out = <<>>
    /\ out' = <<build_citation_keys(arg)>>
    /\ UNCHANGED <<mainVars, arg>>

KeysNext == BuildCitationKeys

SpecKeys == KeysInit /\ [][KeysNext]_vars

(* extract_reference_paragraphs *)

MaxRefParagraphs == 4

RefParagraphPool ==
    { Chars("Intro"), Chars("References"), Chars(" REFERENCE LIST "), <<>>,
      Chars("  "), <<"U+6587", "U+732E">>, Chars("Smith 2020") }

RefsInit ==
    /\ MainOff
    /\ arg \in SeqsUpTo(RefParagraphPool, MaxRefParagraphs)
    /\ out = <<>>

ExtractReferenceParagraphs ==
    /\ out = <<>>
    /\ out' = <<extract_reference_paragraphs(arg)>>
    /\ UNCHANGED <<mainVars, arg>>

RefsNext == ExtractReferenceParagraphs

SpecRefs == RefsInit /\ [][RefsNext]_vars

(* parse_reference_entries *)

MaxRefLines == 4

\* a reference line is what extract_reference_paragraphs returns: stripped
\* and not empty
RefLinePool ==
    { Chars("No year"), Chars("1, 2020"), Chars("Duer, A., & Smith, B. (1992). T."),
      Chars("X. Li 2019b"), Chars("Smith, J. 2020a. T.") }

ParseInit ==
    /\ MainOff
    /\ arg \in SeqsUpTo(RefLinePool, MaxRefLines)
    /\ out = <<>>

ParseReferenceEntries ==
    /\ out = <<>>
    /\ out' = <<parse_reference_entries(arg)>>
    /\ UNCHANGED <<mainVars, arg>>

ParseNext == ParseReferenceEntries

SpecParse == ParseInit /\ [][ParseNext]_vars

-----------------------------------------------------------------------------
(* Claims about normalize_author (SpecNorm).  out[1] is the result for the   *)
(* fragment, out[2] for the fragment followed by " et al.", out[3] for the   *)
(* fragment followed by " et al".                                            *)

\* the tokens of s as the maximal runs of non-whitespace characters
TokenSpans(s) ==
    {<<i, j>> \in (1..Len(s)) \X (1..Len(s)) :
        /\ i <= j
        /\ \A k \in i..j : ~IsSpace(s[k])
        /\ (i = 1 \/ IsSpace(s[i - 1]))
        /\ (j = Len(s) \/ IsSpace(s[j + 1]))}
FirstToken(s) ==
    LET sp == CHOOSE t \in TokenSpans(s) : \A u \in TokenSpans(s) : t[1] <= u[1]
    IN  SubSeq(s, sp[1], sp[2])
LastToken(s) ==
    LET sp == CHOOSE t \in TokenSpans(s) : \A u \in TokenSpans(s) : t[1] >= u[1]
    IN  SubSeq(s, sp[1], sp[2])

\* s without the characters of its occurrences of "et al."
WithoutEtAlDot(s) ==
    LET covered == {p \in 1..Len(s) : \E q \in (p - 5)..p : HasAt(s, Chars("et al."), q)}
        kept == {p \in 1..Len(s) : p \notin covered}
        nth(k) == CHOOSE p \in kept : Cardinality({q \in kept : q < p}) = k - 1
    IN  [k \in 1..Cardinality(kept) |-> s[nth(k)]]

\* the text before the first comma, the whole text when there is none
UpToFirstComma(s) ==
    IF \E i \in 1..Len(s) : s[i] = ","
    THEN SubSeq(s, 1, (CHOOSE i \in 1..Len(s) : s[i] = "," /\ \A k \in 1..(i - 1) : s[k] # ",") - 1)
    ELSE s

\* a single capital letter optionally followed by a period
LooksLikeInitial(t) == t \in {<<c>> : c \in UpperSet} \cup {<<c, ".">> : c \in UpperSet}

\* the surname by the rules in their order: the text after the first comma
\* discarded, the last token when there are two or more and the first is an
\* initial, else the first; only letters, hyphen and apostrophe kept;
\* lower-cased; empty when no token remains
SurnameByRules(s) ==
    LET t == UpToFirstComma(s)
        chosen == IF Cardinality(TokenSpans(t)) >= 2 /\ LooksLikeInitial(FirstToken(t))
                  THEN LastToken(t) ELSE FirstToken(t)
    IN  IF TokenSpans(t) = {} THEN <<>>
        ELSE Lower(SelectSeq(chosen, LAMBDA c : IsLetter(c) \/ c \in {"-", "'"}))

\* C5 as stated: normalize_author gives the same result for a fragment, for
\* the fragment followed by " et al." and for the fragment followed by
\* " et al" (the token removed with or without its period).
C5_EtAlPeriodOptional ==
    Len(out) = 3 => out[2] = out[1] /\ out[3] = out[1]

\* C5 amended: only "et al." with its period is removed.  The result for the
\* fragment followed by " et al." is the result for the fragment.  Followed by
\* " et al", the words "et" and "al" stay as tokens: the result is that of the
\* fragment when the fragment holds a comma or its first token is no initial,
\* "al" when its first token is an initial, "et" when it holds no token.
C5_EtAlWithPeriodOnly ==
    LET f == WithoutEtAlDot(arg)
    IN  /\ Len(out) >= 2 => out[2] = out[1]
        /\ Len(out) = 3 =>
             out[3] = IF \E i \in 1..Len(f) : f[i] = "," THEN out[1]
                      ELSE IF TokenSpans(f) = {} THEN Chars("et")
                      ELSE IF LooksLikeInitial(FirstToken(f)) THEN Chars("al")
                      ELSE out[1]
        /\ arg = Chars("Duer") /\ Len(out) = 3 =>
             out[1] = Chars("duer") /\ out[2] = Chars("duer") /\ out[3] = Chars("duer")
        /\ arg = Chars("X. Li") /\ Len(out) = 3 =>
             out[1] = Chars("li") /\ out[2] = Chars("li") /\ out[3] = Chars("al")

\* C5 witness: "X. Li" applied all three ways, " et al" giving another result
C5_Witness ==
    /\ arg = Chars("X. Li")
    /\ Len(out) = 3
    /\ out[2] = out[1]
    /\ out[3] # out[1]

\* C6: for every fragment, the result of normalize_author is the surname by
\* the rules in their order (the occurrences of "et al." left out of what
\* remains): the text after the first comma discarded first, then the last
\* token when there are at least two and the first is an initial, else the
\* first token, stripped to letters, hyphen and apostrophe and lower-cased,
\* empty when no token remains; "X. Li" and "Li, X." give "li", "Allan and
\* Jones" gives "allan".
C6_RuleOrder ==
    Len(out) >= 1 =>
        /\ out[1] = SurnameByRules(WithoutEtAlDot(UpToFirstComma(arg)))
        /\ arg = Chars("X. Li") => out[1] = Chars("li")
        /\ arg = Chars("Li, X.") => out[1] = Chars("li")
        /\ arg = Chars("Allan and Jones") => out[1] = Chars("allan")

\* C6 witness: a fragment normalized whose text before the comma holds two
\* tokens, an initial first
C6_Witness ==
    /\ Len(out) >= 1
    /\ arg = Chars("X Li,")
    /\ out[1] = Chars("li")

-----------------------------------------------------------------------------
(* Claims about extract_citations (SpecScan).  out[1] is the result.         *)

\* whether c holds a year token: four digits (optionally followed by one
\* lowercase letter, which adds nothing to whether one is there)
HoldsYearToken(c) ==
    \E k \in 1..Len(c) : k + 3 <= Len(c) /\ \A d \in 0..3 : c[k + d] \in DigitSet

\* the parenthesized spans <<i, j>> of t with no parenthesis inside and a
\* year token inside
FlatYearSpans(t) ==
    {sp \in (1..Len(t)) \X (1..Len(t)) :
        /\ sp[1] < sp[2]
        /\ t[sp[1]] = "("
        /\ t[sp[2]] = ")"
        /\ \A k \in (sp[1] + 1)..(sp[2] - 1) : t[k] \notin {"(", ")"}
        /\ HoldsYearToken(SubSeq(t, sp[1] + 1, sp[2] - 1))}

\* one candidate for each such span, in text order
CandidatesBySpan(t) ==
    LET S == FlatYearSpans(t)
        nth(k) == CHOOSE sp \in S : Cardinality({u \in S : u[1] < sp[1]}) = k - 1
    IN  [k \in 1..Cardinality(S) |-> Strip(SubSeq(t, nth(k)[1] + 1, nth(k)[2] - 1))]

\* C9: extract_citations returns, in text order and with duplicates kept, one
\* candidate for each parenthesized span whose content has no parenthesis and
\* holds a year token, and nothing else; every candidate holds a year token
\* and no parenthesis; the example text gives exactly the one candidate
\* "Duer et al., 1992; Luo, 2022".
C9_OneCandidatePerYearSpan ==
    out # <<>> =>
        /\ out[1] = CandidatesBySpan(arg)
        /\ \A k \in 1..Len(out[1]) :
              /\ HoldsYearToken(out[1][k])
              /\ \A i \in 1..Len(out[1][k]) : out[1][k][i] \notin {"(", ")"}
        /\ arg = ScanExample => out[1] = <<Chars("Duer et al., 1992; Luo, 2022")>>

\* C9 witness: the example text scanned, its second parenthesized span
\* holding no year token
C9_Witness ==
    /\ out # <<>>
    /\ arg = ScanExample
    /\ Len(out[1]) = 1
    /\ Contains(arg, Chars("(see discussion)"))

-----------------------------------------------------------------------------
(* Claims about build_citation_keys (SpecKeys).  out[1] is the result.       *)

\* the first comma after i, when c holds an uppercase letter at i
CommaAfter(c, i) == CHOOSE k \in (i + 1)..Len(c) : c[k] = "," /\ \A q \in i..(k - 1) : c[q] # ","
\* the first position after the comma k that holds no whitespace
YearStartAfter(c, k) ==
    CHOOSE y \in (k + 1)..(Len(c) + 1) :
        /\ \A q \in (k + 1)..(y - 1) : IsSpace(c[q])
        /\ y <= Len(c) => ~IsSpace(c[y])

\* the shape at i: text starting with an uppercase letter and holding no
\* comma, then a comma, optional whitespace, then a year token
ShapeAt(c, i) ==
    /\ c[i] \in UpperSet
    /\ \E k \in (i + 1)..Len(c) : c[k] = ","
    /\ LET y == YearStartAfter(c, CommaAfter(c, i))
       IN  y + 3 <= Len(c) /\ \A d \in 0..3 : c[y + d] \in DigitSet
ShapeAuthor(c, i) == SubSeq(c, i, CommaAfter(c, i) - 1)
ShapeYear(c, i) ==
    LET y == YearStartAfter(c, CommaAfter(c, i))
    IN  SubSeq(c, y, IF y + 4 <= Len(c) /\ c[y + 4] \in LowerSet THEN y + 4 ELSE y + 3)
ShapeEnd(c, i) ==
    YearStartAfter(c, CommaAfter(c, i)) + Len(ShapeYear(c, i)) - 1

\* the segments of c: reading left to right, a segment starts at each
\* position that has the shape and lies in no segment started before it
RECURSIVE IsSegmentStart(_, _)
IsSegmentStart(c, i) ==
    /\ ShapeAt(c, i)
    /\ \A h \in 1..(i - 1) :
          ~(ShapeAt(c, h) /\ ShapeEnd(c, h) >= i /\ IsSegmentStart(c, h))
Segments(c) == {i \in 1..Len(c) : IsSegmentStart(c, i)}

\* the keys of the segments of c whose author does not normalize to ""
SegmentKeys(c) ==
    {MakeKey(normalize_author(ShapeAuthor(c, i)), ShapeYear(c, i)) :
        i \in {h \in Segments(c) : normalize_author(ShapeAuthor(c, h)) # <<>>}}

\* C7: build_citation_keys maps key k to exactly the set of candidates that
\* hold a segment (as the left-to-right reading delimits them) of the shape
\* "uppercase-led text without comma, comma, optional whitespace, year token"
\* whose normalized author and year form k; a candidate with several pairs
\* gives one key per pair; a segment with no comma before its year or with an
\* author that normalizes to "" gives no key; the example candidate gives the
\* one key allan|1999.
C7_KeysOfSegments ==
    out # <<>> =>
        /\ DOMAIN out[1] = UNION {SegmentKeys(arg[n]) : n \in 1..Len(arg)}
        /\ \A k \in DOMAIN out[1] :
              out[1][k] = {arg[n] : n \in {h \in 1..Len(arg) : k \in SegmentKeys(arg[h])}}
        /\ KeysExample \in Range(arg) =>
              {k \in DOMAIN out[1] : KeysExample \in out[1][k]} = {Chars("allan|1999")}
        /\ arg = <<Chars("A 1999,1999")>> => DOMAIN out[1] = {}
        /\ arg = <<Chars("Luo 2022")>> => DOMAIN out[1] = {}

\* C7 witness: two candidates, one holding two pairs with two keys, sharing
\* the key allan|1999
C7_Witness ==
    /\ out # <<>>
    /\ arg = <<KeysExample, Chars("Allan, 1999; Luo, 2022")>>
    /\ DOMAIN out[1] = {Chars("allan|1999"), Chars("luo|2022")}
    /\ out[1][Chars("allan|1999")] = Range(arg)
    /\ out[1][Chars("luo|2022")] = {Chars("Allan, 1999; Luo, 2022")}

-----------------------------------------------------------------------------
(* Claims about extract_reference_paragraphs (SpecRefs).  out[1] is the      *)
(* result.                                                                   *)

\* the paragraphs whose lower-cased text holds a heading keyword
HeadingPositions(ps) ==
    {i \in 1..Len(ps) : \E k \in 1..Len(heading_keywords) :
                            Contains(Lower(ps[i]), heading_keywords[k])}

\* the non-empty (after trimming) paragraphs after the first heading
\* paragraph, in document order
ParagraphsAfterHeading(ps) ==
    LET H == HeadingPositions(ps)
        first == CHOOSE h \in H : \A g \in H : h <= g
        kept == IF H = {} THEN {}
                ELSE {i \in (first + 1)..Len(ps) : Strip(ps[i]) # <<>>}
        nth(k) == CHOOSE i \in kept : Cardinality({q \in kept : q < i}) = k - 1
    IN  [k \in 1..Cardinality(kept) |-> Strip(ps[nth(k)])]

\* C8: extract_reference_paragraphs returns, in document order, exactly the
\* non-empty (after trimming) paragraphs after the first paragraph whose
\* lower-cased text holds a heading keyword: nothing at or before it, empty
\* paragraphs skipped without ending the list, a later paragraph with a
\* keyword included, and nothing when no paragraph holds a keyword.
C8_ParagraphsAfterFirstHeading ==
    out # <<>> =>
        /\ out[1] = ParagraphsAfterHeading(arg)
        /\ HeadingPositions(arg) = {} => out[1] = <<>>

\* C8 witness: after the first heading an empty paragraph, then a paragraph
\* that is itself a heading, then an entry; the last two are returned
C8_Witness ==
    /\ out # <<>>
    /\ arg = <<Chars(" REFERENCE LIST "), <<>>, Chars("References"), Chars("Smith 2020")>>
    /\ out[1] = <<Chars("References"), Chars("Smith 2020")>>

-----------------------------------------------------------------------------
(* Claims about parse_reference_entries (SpecParse).  out[1] is the result.  *)

\* the lines that are retained: a year token and a non-empty normalized
\* first author
RetainedLines(lines) ==
    {i \in 1..Len(lines) :
        /\ HoldsYearToken(lines[i])
        /\ normalize_author(UpToFirstComma(lines[i])) # <<>>}

\* C4 as stated: the entries are numbered 0, 1, 2, ... over the retained
\* entries only, the k-th emitted entry (counting from 0) having index k.
C4_IndexOverRetained ==
    out # <<>> => \A k \in 1..Len(out[1]) : out[1][k].index = k - 1

\* C4 amended: the index of an entry is the 0-based position of its line in
\* the sequence of reference lines, dropped lines counted: the entries are
\* the retained lines in order, the k-th emitted entry (from 0) has index k
\* plus the number of lines dropped before it, and index k only when no line
\* before it was dropped.
C4_IndexIsLinePosition ==
    out # <<>> =>
        /\ Len(out[1]) = Cardinality(RetainedLines(arg))
        /\ \A k \in 1..Len(out[1]) :
              LET pos == out[1][k].index + 1
              IN  /\ pos \in RetainedLines(arg)
                  /\ out[1][k].raw = arg[pos]
                  /\ Cardinality({i \in RetainedLines(arg) : i < pos}) = k - 1
                  /\ out[1][k].index =
                        (k - 1) + Cardinality({i \in 1..(pos - 1) : i \notin RetainedLines(arg)})

\* C4 witness: a line with no year token and a line with an empty author
\* dropped before a retained line, whose index is 2
C4_Witness ==
    /\ out # <<>>
    /\ arg = <<Chars("No year"), Chars("1, 2020"), Chars("Smith, J. 2020a. T.")>>
    /\ Len(out[1]) = 1
    /\ out[1][1].index = 2
    /\ out[1][1].key = Chars("smith|2020a")

-----------------------------------------------------------------------------
(* Claims about main (Spec).                                                 *)

\* main has written the report
Reported == pc = "done"

\* the reference list was detected: a non-empty paragraph after the heading
Detected == extract_reference_paragraphs(paragraphs) # <<>>

\* the overall verdict line: the last line of log_lines, and the end of the
\* report file
VerdictLine == log_lines[Len(log_lines)]
ReportEndsWith(line) ==
    /\ Len(report_txt) >= Len(line)
    /\ SubSeq(report_txt, Len(report_txt) - Len(line) + 1, Len(report_txt)) = line

\* whether main wrote the line to the report
InReport(line) == \E i \in 1..Len(log_lines) : log_lines[i] = line

\* C1 as stated: when the reference list was detected, the verdict line says
\* GOOD if and only if both missing and unused are empty.
C1_GoodIffBothEmpty ==
    Reported /\ Detected =>
        (VerdictLine = OverallGoodLine <=> (missing_keys = {} /\ unused_keys = {}))

\* C1 amended: when the reference list was detected, the verdict line says
\* GOOD if and only if missing is empty, whatever unused holds, and says
\* ERRORS otherwise: both sets empty implies GOOD, GOOD implies only that
\* missing is empty.
C1_GoodIffMissingEmpty ==
    Reported /\ Detected =>
        /\ ReportEndsWith(VerdictLine)
        /\ VerdictLine = OverallGoodLine <=> missing_keys = {}
        /\ VerdictLine = OverallErrorsLine <=> missing_keys # {}
        /\ (missing_keys = {} /\ unused_keys = {}) => VerdictLine = OverallGoodLine

\* C1 witness: a report with the GOOD verdict and an unused reference entry
C1_Witness ==
    /\ Reported
    /\ Detected
    /\ VerdictLine = OverallGoodLine
    /\ missing_keys = {}
    /\ unused_keys # {}

\* the (normalized surname, year with suffix) pairs of the in-text citations
\* and of the parsed reference entries
CitationPairs ==
    UNION { {<<normalize_author(ShapeAuthor(citations[n], i)), ShapeYear(citations[n], i)>> :
                i \in {h \in Segments(citations[n]) :
                          normalize_author(ShapeAuthor(citations[n], h)) # <<>>}} :
            n \in 1..Len(citations) }
ReferencePairs ==
    {<<ref_entries[i].author_norm, ref_entries[i].year>> : i \in 1..Len(ref_entries)}
PairKey(pr) == pr[1] \o <<"|">> \o pr[2]

\* C2: when the reference list is detected, missing is exactly the set of
\* citation keys whose (surname, year with suffix) pair is the pair of no
\* reference entry and unused exactly the set of reference keys whose pair is
\* the pair of no citation; smith|2020 cited and smith|2020a referenced do
\* not match: the one is in missing, the other in unused.
C2_ExactKeyMatch ==
    Reported /\ ref_lines # <<>> =>
        /\ missing_keys = {PairKey(pr) : pr \in CitationPairs \ ReferencePairs}
        /\ unused_keys = {PairKey(pr) : pr \in ReferencePairs \ CitationPairs}
        /\ (/\ <<Chars("smith"), Chars("2020")>> \in CitationPairs \ ReferencePairs
            /\ <<Chars("smith"), Chars("2020a")>> \in ReferencePairs \ CitationPairs)
           => /\ Chars("smith|2020") \in missing_keys
              /\ Chars("smith|2020a") \in unused_keys

\* C2 witness: smith|2020 cited, smith|2020a referenced, the report written
C2_Witness ==
    /\ Reported
    /\ missing_keys = {Chars("smith|2020")}
    /\ unused_keys = {Chars("smith|2020a")}

\* no paragraph of the document holds a heading keyword
NoHeading == HeadingPositions(paragraphs) = {}

\* the lines of the missing and unused sections
IsSectionLine(line) ==
    \/ line \in {MissingHeaderLine, MissingOkLine, UnusedHeaderLine, UnusedOkLine}
    \/ line[1] \in {"  key = ", "  - "}

\* C3: when no paragraph holds a heading keyword, extract_reference_paragraphs
\* returns the empty sequence and main does not fail (at the only step whose
\* guard is not its position alone, the step for "no reference list" is
\* enabled): it goes on to write the report, which gives the counts of
\* candidates and of citation keys, holds the "no reference list detected"
\* notice and no missing or unused section, and ends with the undetermined
\* verdict; missing and unused are empty.
C3_NoReferenceList ==
    /\ docx_exists => pc # "FileNotFoundError"
    /\ pc = "step3" /\ NoHeading =>
          /\ ref_lines = <<>>
          /\ extract_reference_paragraphs(paragraphs) = <<>>
          /\ ENABLED NoReferenceList
    /\ Reported /\ NoHeading =>
          /\ ref_lines = <<>>
          /\ missing_keys = {} /\ unused_keys = {} /\ ref_entries = <<>>
          /\ InReport(<<"Number of citation parentheses found: ",
                        Len(extract_citations(extract_text_from_docx(paragraphs, cells)))>>)
          /\ InReport(<<"Number of distinct (author|year) citation keys: ",
                        Cardinality(UNION {SegmentKeys(citations[n]) : n \in 1..Len(citations)})>>)
          /\ InReport(NoReferenceListLine)
          /\ \A i \in 1..Len(log_lines) : ~IsSectionLine(log_lines[i])
          /\ VerdictLine = OverallUndeterminedLine
          /\ VerdictLine \notin {OverallGoodLine, OverallErrorsLine}
          /\ ReportEndsWith(VerdictLine)

\* C3 witness: a document with citations and no heading, the report written
C3_Witness ==
    /\ Reported
    /\ NoHeading
    /\ Len(citations) >= 2
    /\ Len(paragraphs) >= 2

\* the raw lines listed in the unused section, and the number reported
ListedUnused ==
    LET items == SelectSeq(log_lines, LAMBDA line : line[1] = "  - ")
    IN  [k \in 1..Len(items) |-> items[k][2]]
ReportedUnused ==
    LET line == CHOOSE l \in Range(log_lines) :
                    l[1] = "Number of unused reference entries (not cited in text): "
    IN  line[2]

\* the parsed entries whose key no in-text citation produced, in order
UncitedEntries ==
    SelectSeq(ref_entries, LAMBDA e : e.key \notin DOMAIN cit_key_examples)

\* C10: when the reference list is detected, the unused section lists, in
\* bibliography order, the raw line of every parsed entry whose key no
\* citation produced and of no other; the number reported is the number of
\* distinct unused keys, so it is at most the number of lines listed, and
\* equal to it exactly when no two listed entries share a key.
C10_UnusedListedPerEntry ==
    Reported /\ ref_lines # <<>> =>
        /\ ListedUnused = [k \in 1..Len(UncitedEntries) |-> UncitedEntries[k].raw]
        /\ ReportedUnused = Cardinality({UncitedEntries[k].key : k \in 1..Len(UncitedEntries)})
        /\ ReportedUnused <= Len(ListedUnused)
        /\ ReportedUnused = Len(ListedUnused) <=>
              \A j, k \in 1..Len(UncitedEntries) :
                  j # k => UncitedEntries[j].key # UncitedEntries[k].key

\* C10 witness: two listed entries share a key, so fewer keys are reported
\* than lines are listed
C10_Witness ==
    /\ Reported
    /\ ref_lines # <<>>
    /\ Len(ListedUnused) >= 2
    /\ ReportedUnused < Len(ListedUnused)

=============================================================================
